---- MODULE Spec2Model ----
(***************************************************************************)
(* Model of mboard/views.py: the per-viewer rank cache (refresh_rank), the *)
(* trust graph it builds, the voting endpoint (post_vote) and the rank     *)
(* filters of the listing views (list_threads, get_thread).                *)
(*                                                                         *)
(* Each request is served by a worker.  A worker's step is one database    *)
(* query of the handler together with the in-memory code around it, so     *)
(* that requests served concurrently interleave query by query.            *)
(*                                                                         *)
(* Time is counted in half hours.  Ranks are the real ranks times 100.     *)
(***************************************************************************)
EXTENDS Integers, FiniteSets, Sequences, TLC

\* ---------------------------------------------------------------- bounds
MaxPosts == 2
MaxTime == 2
MaxRequests == 2
\* posts while requests are served concurrently
RacePosts == 1

Actors == {"a1", "a2"}
Workers == {"w1", "w2"}
PostIds == 1..MaxPosts
\* the scores BL_PHT returns (times 100): below the threshold, at the
\* threshold, above zero; a rank of zero is that of a pair never computed
Scores == {-2, -1, 1}
\* request.GET['vote'] as an integer
VoteParams == {-1, 1}

\* ------------------------------------------------------- program constants
POST_TO_USER_VOTE == 77777
MINIMAL_AUTHOR_VOTE == 1
NEGATIVE_VOTE_AMPLIFICATION_COEFFICIENT == 10
\* -0.01, times 100
SHADOWBAN_THRESHOLD == -1
\* timedelta(hours=1), in half hours
HOUR == 2
\* Coalesce(..., 0.0) in multi_annotate
COALESCE_RANK == 0
\* defaults of the Rating model's fields
DefaultVote == 0
DefaultRank == 0

VARIABLES
    now,        \* timezone.now()
    RANK_DEBUG, \* settings.RANK_DEBUG
    posts,      \* Post table: posts[i] is the row with pk i
    rating,     \* Rating table, keyed by <<user, target>>
    calctime,   \* CalcTime table, keyed by user
    pc,         \* each worker's position in its handler
    req,        \* each worker's request: view, session, argument
    G,          \* refresh_rank's local graph
    rep,        \* refresh_rank's local rep, the entries still to be saved
    obj,        \* post_vote's local Rating instance
    response,   \* what the handler returns
    nreq,       \* number of requests served so far
    voteSum,    \* history: sum of the deltas asked by the completed post_vote calls
    voted,      \* history: pairs on which a post_vote call has begun
    nrows       \* the number of Rating rows of each (user, target) pair

vars == <<now, RANK_DEBUG, posts, rating, calctime, pc, req, G, rep, obj,
          response, nreq, voteSum, voted, nrows>>

NoReq == [view |-> "none", user |-> "none", arg |-> 0, vote |-> 0]
NoObj == [rank |-> 0, vote |-> 0]
NoResponse ==
    [ok |-> TRUE, threads |-> {}, order |-> <<>>, posts |-> {}, vote |-> 0]
EmptyGraph == [e \in {} |-> 0]
EmptyRep == [n \in {} |-> 0]

\* ------------------------------------------------------------------ nodes
SessionNode(a) == <<"Session", a>>
PostNode(i) == <<"Post", i>>
IsSession(n) == n[1] = "Session"
IsPost(n) == n[1] = "Post"

Nodes(g) == {e[1] : e \in DOMAIN g} \cup {e[2] : e \in DOMAIN g}

\* G.add_edge(u, v, weight=w): a second add_edge of the same pair replaces
\* the weight
add_edge(g, u, v, w) ==
    [e \in DOMAIN g \cup {<<u, v>>} |-> IF e = <<u, v>> THEN w ELSE g[e]]

\* ------------------------------------------------------------ graph build
\* for node in Post.objects.all(): the two authorship edges of each post
RECURSIVE AddPostEdges(_, _, _)
AddPostEdges(g, ps, i) ==
    IF i > Len(ps) THEN g
    ELSE AddPostEdges(
            add_edge(add_edge(g, PostNode(i), SessionNode(ps[i].session),
                              POST_TO_USER_VOTE),
                     SessionNode(ps[i].session), PostNode(i),
                     MINIMAL_AUTHOR_VOTE),
            ps, i + 1)

\* node.vote if node.vote >= 0.0 else node.vote * COEFFICIENT
\* (a faulty variant: a negative vote is not amplified)
VoteWeightNoAmplification(v) == v
VoteWeight(v) ==
    IF v >= 0 THEN v ELSE v * NEGATIVE_VOTE_AMPLIFICATION_COEFFICIENT

\* for node in Rating.objects.all(): one edge per row, whatever wrote the row
RECURSIVE AddRatingEdges(_, _, _)
AddRatingEdges(g, rt, keys) ==
    IF keys = {} THEN g
    ELSE LET k == CHOOSE x \in keys : TRUE
         IN AddRatingEdges(
                add_edge(g, SessionNode(k[1]), PostNode(k[2]),
                         VoteWeight(rt[k].vote)),
                rt, keys \ {k})

\* ------------------------------------------------------------ propagation
\* calc_rep: one score for every node of the graph but the seed.  ppr is
\* BL_PHT(graph, seed).compute, a function of the node.
calc_rep(g, seed_node, ppr) ==
    [n \in Nodes(g) \ {seed_node} |-> ppr[n]]

\* the entries of rep that refresh_rank saves: Session -> Post only
\* (a faulty variant: every entry of rep is saved)
SavedAll(r) == r
Saved(r) == [n \in {m \in DOMAIN r : IsPost(m)} |-> r[n]]

\* ------------------------------------------------------------- cache test
\* obj.rank_calc_time + timedelta(hours=1) > timezone.now()
cache_expired(rank_calc_time, t) == rank_calc_time + HOUR > t

\* the early return of refresh_rank
\* (a faulty variant: RANK_DEBUG is not consulted)
CacheReturnIgnoresDebug(rank_calc_time, t, created, debug) ==
    ~cache_expired(rank_calc_time, t) /\ ~created
\* (a faulty variant: a row just created counts as a reason to return)
CacheReturnOnCreated(rank_calc_time, t, created, debug) ==
    (~cache_expired(rank_calc_time, t) \/ created) /\ ~debug
CacheReturn(rank_calc_time, t, created, debug) ==
    ~cache_expired(rank_calc_time, t) /\ ~created /\ ~debug

\* the CalcTime row that get_or_create inserts
DefaultCalcTime(t) == t

\* --------------------------------------------------------------- Rating
HasRow(rt, k) == k \in DOMAIN rt

\* the rows that an update_or_create or a get_or_create of the pair k adds:
\* one when the lookup finds no row, none when it finds one
\* (a faulty variant: a row is added at every call)
InsertedAlways(rt, k) == 1
Inserted(rt, k) == IF HasRow(rt, k) THEN 0 ELSE 1

\* Rating.objects.update_or_create(user, target, defaults={'rank': rank})
\* (a faulty variant: the row is replaced, its vote back at the default)
update_or_replace(rt, k, rank) ==
    [x \in DOMAIN rt \cup {k} |->
        IF x = k THEN [rank |-> rank, vote |-> DefaultVote] ELSE rt[x]]
update_or_create(rt, k, rank) ==
    IF HasRow(rt, k)
    THEN [rt EXCEPT ![k].rank = rank]
    ELSE [x \in DOMAIN rt \cup {k} |->
            IF x = k THEN [rank |-> rank, vote |-> DefaultVote] ELSE rt[x]]

\* Rating.objects.get_or_create(user, target)
get_or_create(rt, k) ==
    IF HasRow(rt, k)
    THEN rt
    ELSE [x \in DOMAIN rt \cup {k} |->
            IF x = k THEN [rank |-> DefaultRank, vote |-> DefaultVote]
            ELSE rt[x]]

\* rating.save(): every field of the instance is written to its row
save(rt, k, instance) ==
    [x \in DOMAIN rt \cup {k} |-> IF x = k THEN instance ELSE rt[x]]

\* 1 if int(vote) == 1 else -1
\* (a faulty variant: every vote counts as an upvote)
VoteDeltaAlwaysUp(v) == 1
VoteDelta(v) == IF v = 1 THEN 1 ELSE -1

\* ------------------------------------------------------------- annotation
\* multi_annotate: Coalesce(Subquery(rank of the viewer's row), 0.0)
AnnotatedRank(rt, user, i) ==
    IF HasRow(rt, <<user, i>>) THEN rt[<<user, i>>].rank ELSE COALESCE_RANK

\* board.post_set.all().filter(thread__isnull=True)
Threads(ps) == {i \in 1..Len(ps) : ps[i].thread = 0}

\* thread.post_set.all()
PostSet(ps, t) == {i \in 1..Len(ps) : ps[i].thread = t}

\* filter(Q(session=session_key) | Q(rank__gt=0))
ThreadFilter(ps, rt, user, i) ==
    ps[i].session = user \/ AnnotatedRank(rt, user, i) > 0

\* exclude(rank__lt=SHADOWBAN_THRESHOLD)
\* (a faulty variant: rank__lte, which hides a post whose rank is the threshold)
PostFilterInclusive(ps, rt, user, i) ==
    ~(AnnotatedRank(rt, user, i) <= SHADOWBAN_THRESHOLD)
PostFilter(ps, rt, user, i) ==
    ~(AnnotatedRank(rt, user, i) < SHADOWBAN_THRESHOLD)

\* single_annotate: Rating.objects.get raises DoesNotExist without a row
single_annotate_ok(ps, rt, user, t) ==
    ps[t].session = user \/ HasRow(rt, <<user, t>>)

\* ------------------------------------------------------------------- Init
Init ==
    /\ now = 0
    /\ RANK_DEBUG \in BOOLEAN
    /\ posts = <<>>
    /\ rating = [k \in {} |-> NoObj]
    /\ calctime = [a \in {} |-> 0]
    /\ pc = [w \in Workers |-> "idle"]
    /\ req = [w \in Workers |-> NoReq]
    /\ G = [w \in Workers |-> EmptyGraph]
    /\ rep = [w \in Workers |-> EmptyRep]
    /\ obj = [w \in Workers |-> NoObj]
    /\ response = [w \in Workers |-> NoResponse]
    /\ nreq = 0
    /\ voteSum = [k \in Actors \X PostIds |-> 0]
    /\ nrows = [k \in Actors \X PostIds |-> 0]
    /\ voted = {}

\* ------------------------------------------------------------ environment
\* the clock advances
Tick ==
    /\ now < MaxTime
    /\ now' = now + 1
    /\ UNCHANGED <<RANK_DEBUG, posts, rating, calctime, pc, req, G, rep, obj,
                   response, nreq, voteSum, voted, nrows>>

\* create_new_thread: new_thread.save() with no parent thread
create_new_thread(a) ==
    /\ Len(posts) < MaxPosts
    /\ posts' = Append(posts, [session |-> a, thread |-> 0])
    /\ UNCHANGED <<now, RANK_DEBUG, rating, calctime, pc, req, G, rep, obj,
                   response, nreq, voteSum, voted, nrows>>

\* create_new_post: new_post.save() with thread_id an existing post
create_new_post(a, t) ==
    /\ Len(posts) < MaxPosts
    /\ t \in 1..Len(posts)
    /\ posts' = Append(posts, [session |-> a, thread |-> t])
    /\ UNCHANGED <<now, RANK_DEBUG, rating, calctime, pc, req, G, rep, obj,
                   response, nreq, voteSum, voted, nrows>>

\* ----------------------------------------------------------- refresh_rank
\* lines 44-52: the session, CalcTime.objects.get_or_create and the cache
\* test; either the early return or the start of the graph build
refresh_rank(w, a) ==
    LET created == a \notin DOMAIN calctime
        rank_calc_time == IF created THEN DefaultCalcTime(now) ELSE calctime[a]
    IN /\ calctime' = IF created
                      THEN [x \in DOMAIN calctime \cup {a} |->
                              IF x = a THEN rank_calc_time ELSE calctime[x]]
                      ELSE calctime
       /\ pc' = [pc EXCEPT ![w] =
                    IF CacheReturn(rank_calc_time, now, created, RANK_DEBUG)
                    THEN "render" ELSE "rr_posts"]

\* list_threads, a GET: refresh_rank(request) first
list_threads(w, a) ==
    /\ pc[w] = "idle"
    /\ nreq < MaxRequests
    /\ nreq' = nreq + 1
    /\ req' = [req EXCEPT ![w] =
                  [view |-> "list_threads", user |-> a, arg |-> 0, vote |-> 0]]
    /\ refresh_rank(w, a)
    /\ UNCHANGED <<now, RANK_DEBUG, posts, rating, G, rep, obj, response,
                   voteSum, voted, nrows>>

\* get_thread, a GET: get_object_or_404(Post, pk=thread_id), then
\* refresh_rank(request)
get_thread(w, a, t) ==
    /\ pc[w] = "idle"
    /\ t \in 1..Len(posts)
    /\ nreq < MaxRequests
    /\ nreq' = nreq + 1
    /\ req' = [req EXCEPT ![w] =
                  [view |-> "get_thread", user |-> a, arg |-> t, vote |-> 0]]
    /\ refresh_rank(w, a)
    /\ UNCHANGED <<now, RANK_DEBUG, posts, rating, G, rep, obj, response,
                   voteSum, voted, nrows>>

\* lines 54-62: G = nx.DiGraph() and the loop over Post.objects.all()
build_posts(w) ==
    /\ pc[w] = "rr_posts"
    /\ G' = [G EXCEPT ![w] = AddPostEdges(EmptyGraph, posts, 1)]
    /\ pc' = [pc EXCEPT ![w] = "rr_ratings"]
    /\ UNCHANGED <<now, RANK_DEBUG, posts, rating, calctime, req, rep, obj,
                   response, nreq, voteSum, voted, nrows>>

\* lines 66-70: the loop over Rating.objects.all() and calc_rep(G, user)
build_ratings(w) ==
    /\ pc[w] = "rr_ratings"
    /\ LET g == AddRatingEdges(G[w], rating, DOMAIN rating)
           seed == SessionNode(req[w].user)
       IN /\ G' = [G EXCEPT ![w] = g]
          /\ \E ppr \in [Nodes(g) \ {seed} -> Scores] :
                rep' = [rep EXCEPT ![w] = Saved(calc_rep(g, seed, ppr))]
    /\ pc' = [pc EXCEPT ![w] = "rr_save"]
    /\ UNCHANGED <<now, RANK_DEBUG, posts, rating, calctime, req, obj,
                   response, nreq, voteSum, voted, nrows>>

\* lines 71-78: one Rating.objects.update_or_create of the loop over rep
save_rank(w) ==
    /\ pc[w] = "rr_save"
    /\ \E n \in DOMAIN rep[w] :
          /\ rating' = update_or_create(rating, <<req[w].user, n[2]>>, rep[w][n])
          /\ nrows' = [nrows EXCEPT ![<<req[w].user, n[2]>>] =
                          @ + Inserted(rating, <<req[w].user, n[2]>>)]
          /\ rep' = [rep EXCEPT ![w] =
                        [m \in DOMAIN rep[w] \ {n} |-> rep[w][m]]]
    /\ UNCHANGED <<now, RANK_DEBUG, posts, calctime, pc, req, G, obj,
                   response, nreq, voteSum, voted>>

\* lines 79-80: CalcTime.objects.filter(user=user).update(...); return user
save_calc_time(w) ==
    /\ pc[w] = "rr_save"
    /\ DOMAIN rep[w] = {}
    /\ calctime' = [x \in DOMAIN calctime |->
                      IF x = req[w].user THEN now ELSE calctime[x]]
    /\ G' = [G EXCEPT ![w] = EmptyGraph]
    /\ pc' = [pc EXCEPT ![w] = "render"]
    /\ UNCHANGED <<now, RANK_DEBUG, posts, rating, req, rep, obj, response,
                   nreq, voteSum, voted, nrows>>

\* ------------------------------------------------------------------ views
\* order_by('-rank') on the threads that pass the filter: the sequences the
\* query may return.  No second key is given, so threads of equal rank come
\* in whatever order the database produces.
ThreadOrders(ps, rt, user) ==
    LET shown == {i \in Threads(ps) : ThreadFilter(ps, rt, user, i)}
        n == Cardinality(shown)
    IN {s \in [1..n -> shown] :
          \A i, j \in 1..n :
             i < j => /\ s[i] # s[j]
                      /\ AnnotatedRank(rt, user, s[i]) >=
                            AnnotatedRank(rt, user, s[j])}

\* list_threads lines 137-150: the threads shown, their order and, for each,
\* its posts shown (before Paginator and before the [:4] slice)
ListThreadsResponse(ps, rt, user, order) ==
    LET shown == {i \in Threads(ps) : ThreadFilter(ps, rt, user, i)}
    IN [ok |-> TRUE,
        threads |-> shown,
        order |-> order,
        posts |-> {<<t, i>> \in shown \X (1..Len(ps)) :
                      i \in PostSet(ps, t) /\ PostFilter(ps, rt, user, i)},
        vote |-> 0]

\* get_thread lines 186-187: single_annotate of the thread, and its posts
GetThreadResponse(ps, rt, user, t) ==
    IF single_annotate_ok(ps, rt, user, t)
    THEN [ok |-> TRUE,
          threads |-> {t},
          order |-> <<t>>,
          posts |-> {<<t, i>> : i \in {j \in PostSet(ps, t) :
                                          PostFilter(ps, rt, user, j)}},
          vote |-> 0]
    ELSE [NoResponse EXCEPT !.ok = FALSE]

\* the queries of the view after refresh_rank has returned
render(w) ==
    /\ pc[w] = "render"
    /\ IF req[w].view = "list_threads"
       THEN \E order \in ThreadOrders(posts, rating, req[w].user) :
               response' = [response EXCEPT ![w] =
                  ListThreadsResponse(posts, rating, req[w].user, order)]
       ELSE response' = [response EXCEPT ![w] =
               GetThreadResponse(posts, rating, req[w].user, req[w].arg)]
    /\ pc' = [pc EXCEPT ![w] = "sent"]
    /\ UNCHANGED <<now, RANK_DEBUG, posts, rating, calctime, req, G, rep, obj,
                   nreq, voteSum, voted, nrows>>

\* the response leaves; the worker is free again
finish(w) ==
    /\ pc[w] = "sent"
    /\ pc' = [pc EXCEPT ![w] = "idle"]
    /\ req' = [req EXCEPT ![w] = NoReq]
    /\ obj' = [obj EXCEPT ![w] = NoObj]
    /\ response' = [response EXCEPT ![w] = NoResponse]
    /\ UNCHANGED <<now, RANK_DEBUG, posts, rating, calctime, G, rep, nreq,
                   voteSum, voted, nrows>>

\* -------------------------------------------------------------- post_vote
\* lines 304-307: the target, the session, Rating.objects.get_or_create
post_vote_get(w, a, t, v) ==
    /\ pc[w] = "idle"
    /\ t \in 1..Len(posts)
    /\ nreq < MaxRequests
    /\ nreq' = nreq + 1
    /\ req' = [req EXCEPT ![w] =
                  [view |-> "post_vote", user |-> a, arg |-> t, vote |-> v]]
    /\ rating' = get_or_create(rating, <<a, t>>)
    /\ obj' = [obj EXCEPT ![w] = rating'[<<a, t>>]]
    /\ voted' = voted \cup {<<a, t>>}
    /\ pc' = [pc EXCEPT ![w] = "pv_save"]
    /\ nrows' = [nrows EXCEPT ![<<a, t>>] = @ + Inserted(rating, <<a, t>>)]
    /\ UNCHANGED <<now, RANK_DEBUG, posts, calctime, G, rep, response, voteSum>>

\* lines 309-311: rating.vote += ...; rating.save(); the JSON response
post_vote_save(w) ==
    /\ pc[w] = "pv_save"
    /\ LET k == <<req[w].user, req[w].arg>>
           d == VoteDelta(req[w].vote)
           instance == [obj[w] EXCEPT !.vote = obj[w].vote + d]
       IN /\ obj' = [obj EXCEPT ![w] = instance]
          /\ rating' = save(rating, k, instance)
          /\ response' = [response EXCEPT ![w] =
                             [NoResponse EXCEPT !.vote = instance.vote]]
          /\ voteSum' = [voteSum EXCEPT ![k] = voteSum[k] + req[w].vote]
    /\ pc' = [pc EXCEPT ![w] = "sent"]
    /\ UNCHANGED <<now, RANK_DEBUG, posts, calctime, req, G, rep, nreq, voted,
                   nrows>>

\* ------------------------------------------------------------------- Next
Step(w) ==
    \/ \E a \in Actors : list_threads(w, a)
    \/ \E a \in Actors, t \in PostIds : get_thread(w, a, t)
    \/ build_posts(w)
    \/ build_ratings(w)
    \/ save_rank(w)
    \/ save_calc_time(w)
    \/ render(w)
    \/ finish(w)
    \/ \E a \in Actors, t \in PostIds, v \in VoteParams : post_vote_get(w, a, t, v)
    \/ post_vote_save(w)

Env ==
    \/ Tick
    \/ \E a \in Actors : create_new_thread(a)
    \/ \E a \in Actors, t \in PostIds : create_new_post(a, t)

\* requests served concurrently, their queries interleaved, on a board of
\* at most RacePosts threads
RaceEnv ==
    \/ Tick
    \/ \E a \in Actors : Len(posts) < RacePosts /\ create_new_thread(a)

Next == RaceEnv \/ \E w \in Workers : Step(w)

Spec == Init /\ [][Next]_vars

\* requests served one at a time: a worker steps only while every other
\* worker is idle, and the environment only while all are
Alone(w) == \A x \in Workers \ {w} : pc[x] = "idle"

Quiet == \A w \in Workers : pc[w] = "idle"

SeqNext ==
    \/ Quiet /\ Tick
    \/ \E a \in Actors : Quiet /\ create_new_thread(a)
    \/ \E a \in Actors, t \in PostIds : Quiet /\ create_new_post(a, t)
    \/ \E w \in Workers, a \in Actors : Alone(w) /\ list_threads(w, a)
    \/ \E w \in Workers, a \in Actors, t \in PostIds :
          Alone(w) /\ get_thread(w, a, t)
    \/ \E w \in Workers : Alone(w) /\ build_posts(w)
    \/ \E w \in Workers : Alone(w) /\ build_ratings(w)
    \/ \E w \in Workers : Alone(w) /\ save_rank(w)
    \/ \E w \in Workers : Alone(w) /\ save_calc_time(w)
    \/ \E w \in Workers : Alone(w) /\ render(w)
    \/ \E w \in Workers : Alone(w) /\ finish(w)
    \/ \E w \in Workers, a \in Actors, t \in PostIds, v \in VoteParams :
          Alone(w) /\ post_vote_get(w, a, t, v)
    \/ \E w \in Workers : Alone(w) /\ post_vote_save(w)

SeqSpec == Init /\ [][SeqNext]_vars

\* ----------------------------------------------------- notions of the claims
Pairs == Actors \X PostIds

\* a viewer's rank of a post, an absent entry counted as 0
ViewerRank(a, i) == IF <<a, i>> \in DOMAIN rating THEN rating[<<a, i>>].rank ELSE 0
ViewerRankNext(a, i) ==
    IF <<a, i>> \in DOMAIN rating' THEN rating'[<<a, i>>].rank ELSE 0

\* a pair's stored vote, 0 before any entry exists
StoredVote(k) == IF k \in DOMAIN rating THEN rating[k].vote ELSE 0
StoredVoteNext(k) == IF k \in DOMAIN rating' THEN rating'[k].vote ELSE 0

\* worker w takes the step that enters refresh_rank
EntersRefresh(w) == pc[w] = "idle" /\ pc'[w] \in {"render", "rr_posts"}

\* worker w has read the posts into its graph and has not yet updated
\* rank_calc_time
InRecompute(w) == pc[w] \in {"rr_ratings", "rr_save"}

\* worker w takes a step of post_vote
PostVoteStep(w) ==
    \/ pc[w] = "idle" /\ pc'[w] = "pv_save"
    \/ pc[w] = "pv_save" /\ pc'[w] = "sent"

Key(w) == <<req[w].user, req[w].arg>>

Sent(w, view) == pc[w] = "sent" /\ req[w].view = view

\* --------------------------------------------------------------------- C1
\* C1: a refresh_rank call for an actor whose CalcTime row already exists,
\* made less than an hour after rank_calc_time with RANK_DEBUG off, builds
\* no graph, writes no rank and leaves rank_calc_time as it was.
C1_CacheHitWithinTTL ==
    [][\A w \in Workers :
          (/\ EntersRefresh(w)
           /\ req'[w].user \in DOMAIN calctime
           /\ now - calctime[req'[w].user] < HOUR
           /\ ~RANK_DEBUG)
          => (pc'[w] = "render" /\ rating' = rating /\ calctime' = calctime)]_vars

\* --------------------------------------------------------------------- C2
\* C2: a refresh_rank call for an actor whose CalcTime row exists, made an
\* hour or more after rank_calc_time, starts the graph build.
C2_RecomputeAfterExpiry ==
    [][\A w \in Workers :
          (/\ EntersRefresh(w)
           /\ req'[w].user \in DOMAIN calctime
           /\ now - calctime[req'[w].user] >= HOUR)
          => pc'[w] = "rr_posts"]_vars

\* --------------------------------------------------------------------- C3
\* C3: no step of post_vote changes the rank of the entry it votes on, and
\* no rank upsert of refresh_rank changes a vote.
C3_RankVoteIsolation ==
    [][\A w \in Workers :
          /\ PostVoteStep(w) =>
                ViewerRankNext(req'[w].user, req'[w].arg)
                    = ViewerRank(req'[w].user, req'[w].arg)
          /\ (pc[w] = "rr_save" /\ rep'[w] # rep[w]) =>
                \A k \in Pairs : StoredVoteNext(k) = StoredVote(k)]_vars

\* --------------------------------------------------------------------- C4
\* C4: once every post_vote call has completed, each pair's stored vote is
\* the initial vote, 0, plus the sum of the deltas of the calls on it.
C4_AtomicVoteIncrement ==
    (\A w \in Workers : pc[w] # "pv_save")
        => \A k \in Pairs : StoredVote(k) = voteSum[k]

\* --------------------------------------------------------------------- C5
\* C5: no two refresh_rank calls for the same actor are inside the recompute
\* section at once.
C5_RecomputeSerialized ==
    \A w1, w2 \in Workers :
        (w1 # w2 /\ InRecompute(w1) /\ InRecompute(w2))
            => req[w1].user # req[w2].user

\* --------------------------------------------------------------------- C6
\* C6: with requests served one at a time, post_vote finds or creates the
\* entry with the votes so far (0 for a new entry), stores the previous vote
\* plus the delta and returns that total: the stored vote of every pair is
\* the sum of the deltas applied to it.
C6_RecordVoteResult ==
    /\ \A k \in Pairs : StoredVote(k) = voteSum[k]
    /\ \A w \in Workers :
          /\ pc[w] = "pv_save" =>
                (Key(w) \in DOMAIN rating /\ obj[w].vote = voteSum[Key(w)])
          /\ Sent(w, "post_vote") =>
                (/\ response[w].vote = voteSum[Key(w)]
                 /\ response[w].vote = rating[Key(w)].vote)

\* two votes of one actor on one post have been stored and returned
C6_Witness ==
    \E w \in Workers :
        /\ Sent(w, "post_vote")
        /\ response[w].vote \in {-2, 2}

\* --------------------------------------------------------------------- C7
\* C7: no step of post_vote builds a graph, changes a CalcTime row or
\* changes a stored rank.
C7_VoteDoesNotRecompute ==
    [][\A w \in Workers :
          PostVoteStep(w) =>
             /\ calctime' = calctime
             /\ G' = G
             /\ \A k \in Pairs : ViewerRankNext(k[1], k[2]) = ViewerRank(k[1], k[2])]_vars

\* --------------------------------------------------------------------- C8
NotBelowThreshold(a, i) == ~(ViewerRank(a, i) < SHADOWBAN_THRESHOLD)

Others(a, S) == {i \in S : posts[i].session # a}

\* the posts of the listed threads, as <<thread, post>>
Listed(S) == {<<t, i>> \in S \X (1..Len(posts)) : i \in PostSet(posts, t)}

\* C8 as stated: a thread or post not authored by the viewer is shown, in the
\* thread list and in a thread's post list, iff its rank is not below
\* SHADOWBAN_THRESHOLD.
C8_ShownIffNotBelowThreshold ==
    \A w \in Workers :
        LET a == req[w].user
            r == response[w]
        IN /\ Sent(w, "list_threads") =>
                /\ \A t \in Others(a, Threads(posts)) :
                      t \in r.threads <=> NotBelowThreshold(a, t)
                /\ \A e \in Listed(r.threads) :
                      posts[e[2]].session # a =>
                         (e \in r.posts <=> NotBelowThreshold(a, e[2]))
           /\ (Sent(w, "get_thread") /\ r.ok) =>
                \A i \in Others(a, PostSet(posts, req[w].arg)) :
                    <<req[w].arg, i>> \in r.posts <=> NotBelowThreshold(a, i)

\* C8 as amended: a post not authored by the viewer is shown, among the posts
\* of a listed thread and in the post list of a thread page that renders, iff
\* its rank is not below SHADOWBAN_THRESHOLD; a thread not authored by the
\* viewer is in the thread list iff its rank is above 0.
C8_PostsByThresholdThreadsAboveZero ==
    \A w \in Workers :
        LET a == req[w].user
            r == response[w]
        IN /\ Sent(w, "list_threads") =>
                /\ \A t \in Others(a, Threads(posts)) :
                      t \in r.threads <=> ViewerRank(a, t) > 0
                /\ \A e \in Listed(r.threads) :
                      posts[e[2]].session # a =>
                         (e \in r.posts <=> NotBelowThreshold(a, e[2]))
           /\ (Sent(w, "get_thread") /\ r.ok) =>
                \A i \in Others(a, PostSet(posts, req[w].arg)) :
                    <<req[w].arg, i>> \in r.posts <=> NotBelowThreshold(a, i)

\* a thread page shows another author's post whose rank is exactly the
\* threshold
C8_Witness ==
    \E w \in Workers :
        /\ Sent(w, "get_thread")
        /\ response[w].ok
        /\ \E e \in response[w].posts :
              /\ posts[e[2]].session # req[w].user
              /\ ViewerRank(req[w].user, e[2]) = SHADOWBAN_THRESHOLD

\* --------------------------------------------------------------------- C9
\* C9: every thread of the viewer is in the thread list, and every post of
\* the viewer in a listed thread or in the thread viewed is among the posts
\* shown, whatever its rank.
C9_OwnContentShown ==
    \A w \in Workers :
        LET a == req[w].user
            r == response[w]
        IN /\ Sent(w, "list_threads") =>
                /\ \A t \in Threads(posts) : posts[t].session = a => t \in r.threads
                /\ \A e \in Listed(r.threads) :
                      posts[e[2]].session = a => e \in r.posts
           /\ (Sent(w, "get_thread") /\ r.ok) =>
                \A i \in PostSet(posts, req[w].arg) :
                    posts[i].session = a => <<req[w].arg, i>> \in r.posts

\* -------------------------------------------------------------------- C10
\* C10: in every graph built, each post has an edge from its creator, of
\* weight MINIMAL_AUTHOR_VOTE unless the creator has voted on the post
\* through post_vote.
C10_DefaultAuthorEdge ==
    \A w \in Workers :
        pc[w] = "rr_save" =>
            \A i \in 1..Len(posts) :
                PostNode(i) \in Nodes(G[w]) =>
                    LET e == <<SessionNode(posts[i].session), PostNode(i)>>
                    IN /\ e \in DOMAIN G[w]
                       /\ <<posts[i].session, i>> \notin voted
                             => G[w][e] = MINIMAL_AUTHOR_VOTE

\* -------------------------------------------------------------------- C11
\* C11: reading a viewer's rank of an existing post never fails: every
\* get_thread request renders, also for a thread without an entry of the
\* viewer (its rank then being 0).
C11_RankReadNeverFails ==
    \A w \in Workers : Sent(w, "get_thread") => response[w].ok

\* -------------------------------------------------------------------- C14
\* C14: with RANK_DEBUG set, every refresh_rank call starts the graph build,
\* whatever the age of the actor's CalcTime row, and the recompute ends by
\* setting rank_calc_time to now.
C14_DebugForcesRecompute ==
    [][\A w \in Workers :
          /\ (EntersRefresh(w) /\ RANK_DEBUG) => pc'[w] = "rr_posts"
          /\ (RANK_DEBUG /\ pc[w] = "rr_save" /\ pc'[w] = "render") =>
                calctime'[req[w].user] = now]_vars

\* with RANK_DEBUG set, a call an hour or more after the last recompute is
\* building the graph
C14_Witness ==
    \E w \in Workers :
        /\ RANK_DEBUG
        /\ pc[w] = "rr_posts"
        /\ now - calctime[req[w].user] >= HOUR

\* -------------------------------------------------------------------- C15
\* C15: a refresh_rank call for an actor without a CalcTime row creates the
\* row and starts the graph build; it never takes the early return.
C15_MissingRecordRecomputes ==
    [][\A w \in Workers :
          (EntersRefresh(w) /\ req'[w].user \notin DOMAIN calctime) =>
             (req'[w].user \in DOMAIN calctime' /\ pc'[w] = "rr_posts")]_vars

\* the first request of a run, RANK_DEBUG off: its actor had no CalcTime row
\* and the call is building the graph
C15_Witness ==
    \E w \in Workers :
        /\ ~RANK_DEBUG
        /\ nreq = 1
        /\ pc[w] = "rr_posts"
        /\ req[w].user \in DOMAIN calctime

Built(w) == pc[w] = "rr_ratings" /\ pc'[w] = "rr_save"

\* C13: in every graph built, each Rating row (a, c) gives the one edge from
\* a to c, whose weight is the row's stored vote v when v >= 0 and v * 10
\* when v < 0; an edge from an actor to a post comes from a row or is the
\* authorship edge.
C13_VoteEdgeWeight ==
    [][\A w \in Workers : Built(w) =>
          /\ \A k \in DOMAIN rating :
                /\ <<SessionNode(k[1]), PostNode(k[2])>> \in DOMAIN G'[w]
                /\ G'[w][<<SessionNode(k[1]), PostNode(k[2])>>] =
                      (IF rating[k].vote >= 0 THEN rating[k].vote
                                              ELSE rating[k].vote * 10)
          /\ \A e \in DOMAIN G'[w] :
                (IsSession(e[1]) /\ IsPost(e[2])) =>
                   \/ <<e[1][2], e[2][2]>> \in DOMAIN rating
                   \/ posts[e[2][2]].session = e[1][2]]_vars

\* a graph built while an actor's stored vote on a post is negative: the
\* edge carries ten times the vote
C13_Witness ==
    \E w \in Workers, k \in DOMAIN rating :
        /\ pc[w] = "rr_save"
        /\ rating[k].vote < 0
        /\ <<SessionNode(k[1]), PostNode(k[2])>> \in DOMAIN G[w]
        /\ G[w][<<SessionNode(k[1]), PostNode(k[2])>>] = rating[k].vote * 10

\* -------------------------------------------------------------------- C16
\* the content nodes of a graph
PostNodes(g) == {n \in Nodes(g) : IsPost(n)}

\* worker w saves one entry of rep
SavesRank(w) == pc[w] = "rr_save" /\ rep'[w] # rep[w]

\* C16: the entries that a recompute for seed s is to save are one for every
\* content node of the graph built and none for an actor (so none for s);
\* each save writes the rank of one content node c to the row (s, c) and
\* touches no other row; when the recompute ends every content node of the
\* graph has its row (s, c).
C16_OnlySeedToContentRanks ==
    [][\A w \in Workers :
          /\ Built(w) =>
                /\ DOMAIN rep'[w] = PostNodes(G'[w])
                /\ SessionNode(req[w].user) \notin DOMAIN rep'[w]
          /\ SavesRank(w) =>
                \E n \in DOMAIN rep[w] :
                   /\ IsPost(n)
                   /\ DOMAIN rep'[w] = DOMAIN rep[w] \ {n}
                   /\ DOMAIN rating' = DOMAIN rating \cup {<<req[w].user, n[2]>>}
                   /\ rating'[<<req[w].user, n[2]>>].rank = rep[w][n]
                   /\ \A k \in DOMAIN rating :
                         k # <<req[w].user, n[2]>> => rating'[k] = rating[k]
          /\ (pc[w] = "rr_save" /\ pc'[w] = "render") =>
                \A n \in PostNodes(G[w]) :
                   <<req[w].user, n[2]>> \in DOMAIN rating]_vars

\* a recompute whose graph holds another actor and two posts has saved all
\* its entries
C16_Witness ==
    \E w \in Workers :
        /\ pc[w] = "rr_save"
        /\ DOMAIN rep[w] = {}
        /\ \E a \in Actors \ {req[w].user} : SessionNode(a) \in Nodes(G[w])
        /\ Cardinality(PostNodes(G[w])) = 2
        /\ \A n \in PostNodes(G[w]) : ViewerRank(req[w].user, n[2]) # 0

\* -------------------------------------------------------------------- C18
\* worker w takes a step of refresh_rank: the cache test, a step of the
\* graph build, a save, or the final update of rank_calc_time
RefreshStep(w) ==
    \/ EntersRefresh(w)
    \/ /\ pc[w] \in {"rr_posts", "rr_ratings", "rr_save"}
       /\ (pc'[w] # pc[w] \/ rep'[w] # rep[w])

\* C18: a step of refresh_rank for actor s deletes no Rating row, changes no
\* row's vote, changes no row of another actor, and neither adds, changes
\* nor deletes the CalcTime row of another actor, also while other requests
\* are in progress.
C18_RecomputeFrame ==
    [][\A w \in Workers : RefreshStep(w) =>
          /\ \A k \in DOMAIN rating :
                /\ k \in DOMAIN rating'
                /\ rating'[k].vote = rating[k].vote
                /\ k[1] # req'[w].user => rating'[k] = rating[k]
          /\ \A k \in DOMAIN rating' \ DOMAIN rating : k[1] = req'[w].user
          /\ \A a \in Actors \ {req'[w].user} :
                /\ a \in DOMAIN calctime <=> a \in DOMAIN calctime'
                /\ a \in DOMAIN calctime => calctime'[a] = calctime[a]
          /\ DOMAIN calctime \subseteq DOMAIN calctime']_vars

\* a recompute for an actor has saved a rank on the row that carries the
\* actor's vote
C18_Witness ==
    \E w \in Workers, k \in DOMAIN rating :
        /\ pc[w] = "rr_save"
        /\ DOMAIN rep[w] = {}
        /\ k[1] = req[w].user
        /\ rating[k].vote # 0
        /\ rating[k].rank # 0

\* -------------------------------------------------------------------- C19
\* C19: every graph built is the graph of the posts and of the votes cast:
\* the authorship edges and one edge for each pair that a post_vote call has
\* voted on; a row that only a recompute has written adds no edge and
\* changes no weight.
C19_GraphOfPostsAndVotes ==
    [][\A w \in Workers : Built(w) =>
          G'[w] = AddRatingEdges(AddPostEdges(EmptyGraph, posts, 1), rating,
                                 DOMAIN rating \cap voted)]_vars

\* -------------------------------------------------------------------- C17
\* C17: the threads of a list_threads response come in non-increasing order
\* of the viewer's rank (an absent entry counted as 0), the viewer's own
\* threads included, and the order among threads of equal rank is fixed by
\* the stored state: the order of the response is the only one that the
\* query can return on the tables as they are.
C17_OrderedByRankFixedTies ==
    \A w \in Workers : Sent(w, "list_threads") =>
        LET r == response[w]
            a == req[w].user
        IN /\ {r.order[i] : i \in 1..Len(r.order)} = r.threads
           /\ \A i, j \in 1..Len(r.order) :
                 i < j => ViewerRank(a, r.order[i]) >= ViewerRank(a, r.order[j])
           /\ ThreadOrders(posts, rating, a) = {r.order}

\* -------------------------------------------------------------------- C20
\* C20: the rank_calc_time of an actor gets a new value, the first one
\* included, only in the last step of a recompute for that actor, when every
\* rank of the recompute has been saved, and the value is now; so a
\* recompute that stops before its last step leaves no new rank_calc_time.
C20_TimestampWrittenLast ==
    [][\A a \in Actors :
          (/\ a \in DOMAIN calctime'
           /\ (a \in DOMAIN calctime => calctime'[a] # calctime[a])) =>
             \E w \in Workers :
                /\ req[w].user = a
                /\ pc[w] = "rr_save"
                /\ DOMAIN rep[w] = {}
                /\ pc'[w] = "render"
                /\ calctime'[a] = now]_vars

====
